---- MODULE Spec2Model ----
(***************************************************************************)
(* The streaming message pipeline of the chat client:                      *)
(*   - the Stream Consumer, handleSubmit of src/pages/index.tsx;           *)
(*   - the Transport Relay, handler of the chat API route.                 *)
(*                                                                         *)
(* Text is a sequence of code points, a byte string a sequence of          *)
(* integers 0..255.  JavaScript runs each piece of code between two awaits *)
(* to completion, so every action below is one such piece.                 *)
(***************************************************************************)
EXTENDS Integers, Sequences, FiniteSets, TLC

(***************************************************************************)
(* Bounds of the exploration.                                              *)
(***************************************************************************)
\* submissions (calls of handleSubmit that pass the blank-input guard)
MaxSubmits == 2
\* frames the server side writes, over all responses, when chunks hold whole frames
MaxFrames == 3
\* frames the server side writes, over all responses, when chunks are cut anywhere
MaxCutFrames == 2
\* submissions when chunks are cut anywhere
MaxCutSubmits == 1
\* entries of the messages array of a relay request
MaxReqMessages == 3
\* chunks the provider stream yields to the relay
MaxProviderChunks == 2

Handlers == 1..MaxSubmits

(***************************************************************************)
(* Text literals of the source.                                            *)
(***************************************************************************)
\* 'data: '
DataPrefix == <<100, 97, 116, 97, 58, 32>>
\* '[DONE]'
DoneLiteral == <<91, 68, 79, 78, 69, 93>>
\* '\n\n'
FrameDelimiter == <<10, 10>>
\* '错误: '
ErrorPrefix == <<38169, 35823, 58, 32>>
\* '网络响应不正常'
NotOkMessage == <<32593, 32476, 21709, 24212, 19981, 27491, 24120>>
\* '无法获取响应流'
NoReaderMessage == <<26080, 27861, 33719, 21462, 21709, 24212, 27969>>
\* the message of the TypeError a rejected fetch carries ('Failed to fetch')
FetchFailedMessage == <<70, 97, 105, 108, 101, 100, 32, 116, 111, 32, 102, 101, 116, 99, 104>>
\* the message of the error a failed read of the body carries ('network error')
ReadFailedMessage == <<110, 101, 116, 119, 111, 114, 107, 32, 101, 114, 114, 111, 114>>
\* U+FFFD, what TextDecoder emits for a malformed byte sequence
Replacement == 65533

(***************************************************************************)
(* Sequence helpers.                                                       *)
(***************************************************************************)
RECURSIVE Flatten(_)
Flatten(ss) == IF ss = <<>> THEN <<>> ELSE Head(ss) \o Flatten(Tail(ss))

IsPrefix(p, s) == Len(p) <= Len(s) /\ SubSeq(s, 1, Len(p)) = p

\* String.prototype.startsWith
StartsWith(s, p) == IsPrefix(p, s)

\* String.prototype.slice(n), n >= 0
Slice(s, n) == SubSeq(s, n + 1, Len(s))

IsSpace(c) == c \in {9, 10, 11, 12, 13, 32}

RECURSIVE TrimStart(_)
TrimStart(s) == IF s # <<>> /\ IsSpace(Head(s)) THEN TrimStart(Tail(s)) ELSE s

RECURSIVE TrimEnd(_)
TrimEnd(s) ==
    IF s # <<>> /\ IsSpace(s[Len(s)]) THEN TrimEnd(SubSeq(s, 1, Len(s) - 1)) ELSE s

\* String.prototype.trim
Trim(s) == TrimEnd(TrimStart(s))

\* the least element of a non-empty set of numbers
Least(S) == CHOOSE x \in S : \A y \in S : x <= y

\* String.prototype.split('\n\n'): the pieces between the non-overlapping
\* occurrences of the delimiter, found left to right from position i
RECURSIVE SplitFrom(_, _)
SplitFrom(s, i) ==
    LET hits == {j \in i..(Len(s) - 1) :
                    s[j] = FrameDelimiter[1] /\ s[j + 1] = FrameDelimiter[2]}
    IN  IF hits = {} THEN <<SubSeq(s, i, Len(s))>>
        ELSE <<SubSeq(s, i, Least(hits) - 1)>> \o SplitFrom(s, Least(hits) + 2)

Split(s) == SplitFrom(s, 1)

(***************************************************************************)
(* UTF-8.  Utf8Encode is what res.write does to a string; Utf8Decode is    *)
(* new TextDecoder().decode(value): a fresh decoder, not in stream mode,   *)
(* so a sequence left incomplete at the end of the bytes, and a            *)
(* continuation byte with no lead byte before it, each decode to U+FFFD.   *)
(***************************************************************************)
EncodeChar(c) ==
    IF c < 128 THEN <<c>>
    ELSE IF c < 2048 THEN <<192 + (c \div 64), 128 + (c % 64)>>
    ELSE IF c < 65536
         THEN <<224 + (c \div 4096), 128 + ((c \div 64) % 64), 128 + (c % 64)>>
         ELSE <<240 + (c \div 262144), 128 + ((c \div 4096) % 64),
                128 + ((c \div 64) % 64), 128 + (c % 64)>>

RECURSIVE Utf8Encode(_)
Utf8Encode(s) == IF s = <<>> THEN <<>> ELSE EncodeChar(Head(s)) \o Utf8Encode(Tail(s))

\* number of continuation bytes the lead byte b asks for; -1: not a lead byte
Utf8Needed(b) ==
    IF b < 128 THEN 0
    ELSE IF b \in 194..223 THEN 1
    ELSE IF b \in 224..239 THEN 2
    ELSE IF b \in 240..244 THEN 3
    ELSE -1

\* the bytes allowed at position j (1 = first continuation) after lead byte b
Utf8Range(b, j) ==
    IF j > 1 THEN 128..191
    ELSE IF b = 224 THEN 160..191
    ELSE IF b = 237 THEN 128..159
    ELSE IF b = 240 THEN 144..191
    ELSE IF b = 244 THEN 128..143
    ELSE 128..191

\* how many of the needed continuation bytes are present and valid after position i
RECURSIVE Utf8Valid(_, _, _, _)
Utf8Valid(bytes, i, j, need) ==
    IF j > need \/ i + j > Len(bytes) \/ bytes[i + j] \notin Utf8Range(bytes[i], j)
    THEN j - 1
    ELSE Utf8Valid(bytes, i, j + 1, need)

Utf8CodePoint(bytes, i, need) ==
    IF need = 1 THEN (bytes[i] - 192) * 64 + (bytes[i + 1] - 128)
    ELSE IF need = 2
         THEN (bytes[i] - 224) * 4096 + (bytes[i + 1] - 128) * 64 + (bytes[i + 2] - 128)
         ELSE (bytes[i] - 240) * 262144 + (bytes[i + 1] - 128) * 4096
              + (bytes[i + 2] - 128) * 64 + (bytes[i + 3] - 128)

\* the text of the bytes from position i on: the bytes below 128 stand for
\* themselves, a lead byte with its continuation bytes gives one character,
\* and a byte sequence that is not well formed gives U+FFFD
RECURSIVE DecodeFrom(_, _)
DecodeFrom(bytes, i) ==
    LET high == {j \in i..Len(bytes) : bytes[j] >= 128}
    IN  IF high = {} THEN SubSeq(bytes, i, Len(bytes))
        ELSE LET j == Least(high)
                 need == Utf8Needed(bytes[j])
                 got == IF need = -1 THEN 0 ELSE Utf8Valid(bytes, j, 1, need)
             IN  SubSeq(bytes, i, j - 1)
                   \o (IF need = got
                       THEN <<Utf8CodePoint(bytes, j, need)>>
                                \o DecodeFrom(bytes, j + need + 1)
                       ELSE <<Replacement>> \o DecodeFrom(bytes, j + got + 1))

\* a byte order mark at the start of the bytes is dropped (ignoreBOM is false)
Utf8Decode(bytes) ==
    LET text == DecodeFrom(bytes, 1)
    IN  IF text # <<>> /\ Head(text) = 65279 THEN Tail(text) ELSE text

(***************************************************************************)
(* JSON, for the one shape the pipeline exchanges: {"content":"..."}.      *)
(***************************************************************************)
\* JSON.stringify of a string's characters: quote, backslash and line feed
\* are escaped, every other character of the texts used here is kept
EscapeChar(c) ==
    IF c = 34 THEN <<92, 34>>
    ELSE IF c = 92 THEN <<92, 92>>
    ELSE IF c = 10 THEN <<92, 110>>
    ELSE <<c>>

RECURSIVE EscapeString(_)
EscapeString(s) ==
    IF s = <<>> THEN <<>> ELSE EscapeChar(Head(s)) \o EscapeString(Tail(s))

\* '{"content":"'
ContentOpen == <<123, 34, 99, 111, 110, 116, 101, 110, 116, 34, 58, 34>>
\* '"}'
ContentClose == <<34, 125>>

\* JSON.stringify({ content })
JSONStringify(content) == ContentOpen \o EscapeString(content) \o ContentClose

\* the characters of a JSON string body, from position i up to its closing
\* quote: [ok, text, next], next the position after the closing quote
RECURSIVE ParseString(_, _, _)
ParseString(s, i, acc) ==
    IF i > Len(s) THEN [ok |-> FALSE, text |-> <<>>, next |-> i]
    ELSE IF s[i] = 34 THEN [ok |-> TRUE, text |-> acc, next |-> i + 1]
    ELSE IF s[i] < 32 THEN [ok |-> FALSE, text |-> <<>>, next |-> i]
    ELSE IF s[i] = 92
         THEN IF i + 1 > Len(s) THEN [ok |-> FALSE, text |-> <<>>, next |-> i]
              ELSE IF s[i + 1] = 34 THEN ParseString(s, i + 2, Append(acc, 34))
              ELSE IF s[i + 1] = 92 THEN ParseString(s, i + 2, Append(acc, 92))
              ELSE IF s[i + 1] = 110 THEN ParseString(s, i + 2, Append(acc, 10))
              ELSE [ok |-> FALSE, text |-> <<>>, next |-> i]
    ELSE ParseString(s, i + 1, Append(acc, s[i]))

\* const { content } = JSON.parse(data): ok is FALSE where JSON.parse throws.
\* Every payload the servers below write, and every piece a chunk boundary
\* cuts off one, is either of the shape {"content":"..."} or no JSON at all.
JSONParse(data) ==
    IF ~IsPrefix(ContentOpen, data) THEN [ok |-> FALSE, content |-> <<>>]
    ELSE LET str == ParseString(data, Len(ContentOpen) + 1, <<>>)
         IN  IF str.ok /\ str.next = Len(data) /\ data[str.next] = 125
             THEN [ok |-> TRUE, content |-> str.text]
             ELSE [ok |-> FALSE, content |-> <<>>]

(***************************************************************************)
(* The SSE frames on the wire.                                             *)
(***************************************************************************)
\* `data: ${JSON.stringify({ content })}\n\n`
ContentFrame(content) == DataPrefix \o JSONStringify(content) \o FrameDelimiter

\* 'data: [DONE]\n\n'
DoneFrame == DataPrefix \o DoneLiteral \o FrameDelimiter

\* the payload of a frame that is no JSON: '{oops'
BadPayload == <<123, 111, 111, 112, 115>>

\* the text fragments a content frame carries here: 'a' and 'é' (two bytes in UTF-8)
Fragments == {<<97>>, <<233>>}

\* what the server side of a response may write: a content frame, the
\* sentinel, or a frame whose payload is malformed
ServerFrames ==
    {[k |-> "content", text |-> f] : f \in Fragments}
        \cup {[k |-> "done", text |-> <<>>], [k |-> "bad", text |-> <<>>]}

FrameText(fr) ==
    IF fr.k = "content" THEN ContentFrame(fr.text)
    ELSE IF fr.k = "done" THEN DoneFrame
    ELSE DataPrefix \o BadPayload \o FrameDelimiter

\* what the user may type into the input field: ' ' and ' q'
Inputs == {<<32>>, <<32, 113>>}

(***************************************************************************)
(* State.                                                                  *)
(***************************************************************************)
VARIABLES
    \* React state of Home
    input, messages, isTyping, currentTypingMessage,
    \* one entry per call of handleSubmit: where it stands, its local
    \* accumulatedContent, the validMessages it sent, the response it got
    pc, accumulatedContent, request, response,
    \* the body of each response: the frames written and not yet read (the
    \* first may be the rest of a frame a chunk boundary cut), whether the
    \* server side is still open, and every frame it wrote
    wire, srv, sent,
    \* how the network cuts a body into chunks: "frames" (every chunk holds
    \* whole frames) or "bytes" (a chunk ends anywhere)
    delivery,
    \* history: which call appended each message; per call the bytes read
    \* so far and the text the chunks decoded to, one after the other
    msgBy, rawRead, decoded,
    \* history: a submission was made while another call was still running
    overlap,
    \* history: the recommended question clicked last and the input at the click
    asked,
    \* the Transport Relay handling one request: where handler stands, the
    \* request, the response as written so far, the calls made to the provider
    \* and the number of chunks its stream has yielded
    relayPc, req, res, providerCalls, providerChunks,
    \* history of the relay: the deltas the provider's stream yielded, in
    \* order; where the provider failed ("none", "open": create rejected,
    \* "stream": the iteration threw); how often the catch block called
    \* res.status(500).json on a response whose headers were already sent
    yielded, failure, lateReplies,
    \* the Code-Block Extractor: the content of the message on screen, the
    \* argument of the latest call of renderMessage and the parts it returned
    msgContent, renderArg, rendered,
    \* history: the parts the first call on msgContent returned (none before
    \* it), and whether another content was rendered since
    firstParts, interleaved,
    \* the side panel and the active tab of Home; MermaidRenderer: how many
    \* times it was mounted, the calls of renderMermaid started so far, each
    \* with the instance that started it, its content and its stage, and the
    \* svg state of the instance on screen
    sidePanel, activeTab, instances, renders, svg,
    \* history: the latest event of the panel
    lastEvent

uiVars == <<input, messages, isTyping, currentTypingMessage>>
callVars == <<pc, accumulatedContent, request, response>>
netVars == <<wire, srv, sent>>
histVars == <<msgBy, rawRead, decoded>>
consumerVars == <<uiVars, callVars, netVars, delivery, histVars, overlap, asked>>
relayHist == <<yielded, failure, lateReplies>>
relayVars == <<relayPc, req, res, providerCalls, providerChunks, relayHist>>
extractVars == <<msgContent, renderArg, rendered, firstParts, interleaved>>
panelVars == <<sidePanel, activeTab, instances, renders, svg, lastEvent>>
viewVars == <<extractVars, panelVars>>
vars == <<uiVars, callVars, netVars, delivery, histVars, overlap, asked, relayVars, viewVars>>

\* no recommended question has been clicked
NoQuestion == [question |-> <<>>, input |-> <<>>]

InitConsumer ==
    /\ input = <<>>
    /\ messages = <<>>
    /\ isTyping = FALSE
    /\ currentTypingMessage = <<>>
    /\ pc = [h \in Handlers |-> "free"]
    /\ accumulatedContent = [h \in Handlers |-> <<>>]
    /\ request = [h \in Handlers |-> <<>>]
    /\ response = [h \in Handlers |-> "none"]
    /\ wire = [h \in Handlers |-> <<>>]
    /\ srv = [h \in Handlers |-> "none"]
    /\ sent = [h \in Handlers |-> <<>>]
    /\ msgBy = <<>>
    /\ rawRead = [h \in Handlers |-> <<>>]
    /\ decoded = [h \in Handlers |-> <<>>]
    /\ overlap = FALSE
    /\ asked = NoQuestion

\* no request has reached the relay
NoRequest == [method |-> "none", isArray |-> FALSE, messages |-> <<>>]

\* a response nothing has been written to
FreshResponse ==
    [status |-> 0, contentType |-> "none", headersSent |-> FALSE,
     message |-> <<>>, frames |-> <<>>, ended |-> FALSE]

InitRelay ==
    /\ relayPc = "idle"
    /\ req = NoRequest
    /\ res = FreshResponse
    /\ providerCalls = <<>>
    /\ providerChunks = 0
    /\ yielded = <<>>
    /\ failure = "none"
    /\ lateReplies = 0

\* renderMessage has not been called
NothingRendered ==
    /\ renderArg = <<>>
    /\ rendered = <<>>
    /\ firstParts = <<>>
    /\ interleaved = FALSE

\* useState({ isOpen: false, content: '', isMermaid: false, isHtml: false })
ClosedPanel ==
    [isOpen |-> FALSE, content |-> <<>>, isMermaid |-> FALSE, isHtml |-> FALSE]

\* nothing has happened to the panel
NoEvent ==
    [ev |-> "none", content |-> <<>>, language |-> <<>>, run |-> 0,
     tabBefore |-> "rendered"]

\* the panel is closed and MermaidRenderer not on screen
InitPanel ==
    /\ sidePanel = ClosedPanel
    /\ activeTab = "rendered"
    /\ instances = 0
    /\ renders = <<>>
    /\ svg = <<>>
    /\ lastEvent = NoEvent

\* no message on screen
InitView ==
    /\ msgContent = <<>>
    /\ NothingRendered
    /\ InitPanel

Init == InitConsumer /\ delivery = "frames" /\ InitRelay /\ InitView

InitBytes == InitConsumer /\ delivery = "bytes" /\ InitRelay /\ InitView

(***************************************************************************)
(* handleSubmit, up to its first await.                                    *)
(***************************************************************************)
\* the bounds that hold under the way the network cuts the bodies
FrameBudget == IF delivery = "frames" THEN MaxFrames ELSE MaxCutFrames

SubmitBudget == IF delivery = "frames" THEN MaxSubmits ELSE MaxCutSubmits

Started == {h \in Handlers : pc[h] # "free"}

\* the calls of handleSubmit that have not returned
Running == {h \in Handlers : pc[h] \in {"fetch", "read"}}

\* a slip: blank messages are sent as well
IsValidMessageAny(msg) == TRUE

\* msg.content && msg.content.trim() !== ''
IsValidMessage(msg) == msg.content # <<>> /\ Trim(msg.content) # <<>>

\* onChange of the input field
SetInput(text) ==
    /\ input' = text
    /\ UNCHANGED <<messages, isTyping, currentTypingMessage, callVars, netVars,
                   delivery, overlap, asked, relayVars, viewVars, histVars>>

\* if (!input.trim()) return
SubmitBlank ==
    /\ Trim(input) = <<>>
    /\ UNCHANGED vars

\* handleSubmit past its guard, until fetch is awaited.  The input and the
\* messages of the closure are those of the last render, which has run since
\* the last update.
handleSubmit ==
    /\ Trim(input) # <<>>
    /\ Cardinality(Started) < SubmitBudget
    /\ LET h == Cardinality(Started) + 1
           newUserMessage == [role |-> "user", content |-> Trim(input)]
       IN  /\ messages' = Append(messages, newUserMessage)
           /\ msgBy' = Append(msgBy, h)
           /\ input' = <<>>
           /\ isTyping' = TRUE
           /\ request' = [request EXCEPT ![h] =
                             SelectSeq(Append(messages, newUserMessage), IsValidMessage)]
           /\ pc' = [pc EXCEPT ![h] = "fetch"]
           /\ overlap' = (overlap \/ Running # {})
    /\ UNCHANGED <<currentTypingMessage, accumulatedContent, response, netVars,
                   delivery, relayVars, viewVars, rawRead, decoded>>

\* the submit of the form
Submit == handleSubmit /\ UNCHANGED asked

\* the first characters of the three recommended questions
recommendedQuestions ==
    <<(<<30011, 19968, 20010>>), (<<29992, 32, 72>>), (<<23454, 29616>>)>>

\* a click on a question card, shown while the history is empty:
\* setInput(question), then handleSubmit of this render, whose input is the
\* one from before the click; when it goes on, its setInput('') comes last
handleRecommendedQuestion(question) ==
    /\ messages = <<>>
    /\ asked' = [question |-> question, input |-> input]
    /\ IF Trim(input) = <<>>
       THEN /\ input' = question
            /\ UNCHANGED <<messages, isTyping, currentTypingMessage, callVars,
                           netVars, delivery, overlap, relayVars, viewVars, histVars>>
       ELSE handleSubmit

(***************************************************************************)
(* The catch block of handleSubmit.                                        *)
(***************************************************************************)
ErrorMessage(text) == [role |-> "assistant", content |-> ErrorPrefix \o text]

\* a slip: the error is logged and the indicator cleared, but no message appended
CatchSilent(h, text) ==
    /\ isTyping' = FALSE
    /\ messages' = messages
    /\ msgBy' = msgBy
    /\ pc' = [pc EXCEPT ![h] = "returned"]

\* a slip: the error message replaces the history instead of being appended
CatchOverwrites(h, text) ==
    /\ isTyping' = FALSE
    /\ messages' = <<ErrorMessage(text)>>
    /\ msgBy' = <<h>>
    /\ pc' = [pc EXCEPT ![h] = "returned"]

Catch(h, text) ==
    /\ isTyping' = FALSE
    /\ messages' = Append(messages, ErrorMessage(text))
    /\ msgBy' = Append(msgBy, h)
    /\ pc' = [pc EXCEPT ![h] = "returned"]

(***************************************************************************)
(* fetch settles: the response is OK with a body, not OK, OK without a     *)
(* readable body, or fetch rejects.                                        *)
(***************************************************************************)
FetchOk(h) ==
    /\ pc[h] = "fetch"
    /\ response' = [response EXCEPT ![h] = "ok"]
    /\ srv' = [srv EXCEPT ![h] = "open"]
    /\ pc' = [pc EXCEPT ![h] = "read"]
    /\ UNCHANGED <<uiVars, accumulatedContent, request, wire, sent, delivery, overlap, asked, relayVars, viewVars, histVars>>

FetchFails(h, r) ==
    /\ pc[h] = "fetch"
    /\ response' = [response EXCEPT ![h] = r]
    /\ Catch(h, IF r = "notok" THEN NotOkMessage
                ELSE IF r = "nobody" THEN NoReaderMessage
                ELSE FetchFailedMessage)
    /\ UNCHANGED <<input, currentTypingMessage, accumulatedContent, request, netVars,
                   delivery, overlap, asked, relayVars, viewVars, rawRead, decoded>>

(***************************************************************************)
(* The server side of a response: any sequence of frames, then the body    *)
(* closes or the connection fails.                                         *)
(***************************************************************************)
RECURSIVE TotalSent(_)
TotalSent(hs) ==
    IF hs = {} THEN 0
    ELSE LET h == CHOOSE x \in hs : TRUE IN Len(sent[h]) + TotalSent(hs \ {h})

ServerWrite(h, fr) ==
    /\ pc[h] = "read" /\ srv[h] = "open"
    /\ TotalSent(Handlers) < FrameBudget
    /\ wire' = [wire EXCEPT ![h] = Append(@, Utf8Encode(FrameText(fr)))]
    /\ sent' = [sent EXCEPT ![h] = Append(@, fr)]
    /\ UNCHANGED <<uiVars, callVars, srv, delivery, overlap, asked, relayVars, viewVars, histVars>>

ServerClose(h) ==
    /\ pc[h] = "read" /\ srv[h] = "open"
    /\ srv' = [srv EXCEPT ![h] = "closed"]
    /\ UNCHANGED <<uiVars, callVars, wire, sent, delivery, overlap, asked, relayVars, viewVars, histVars>>

ServerFail(h) ==
    /\ pc[h] = "read" /\ srv[h] = "open"
    /\ srv' = [srv EXCEPT ![h] = "failed"]
    /\ UNCHANGED <<uiVars, callVars, wire, sent, delivery, overlap, asked, relayVars, viewVars, histVars>>

(***************************************************************************)
(* The read loop of handleSubmit: one chunk, decoded, split and handled    *)
(* line by line.  st holds the values the chunk's code has set so far.     *)
(***************************************************************************)
\* line.slice(6)
PrefixLength == 6

\* data === '[DONE]'
OnSentinel(st) ==
    [st EXCEPT !.isTyping = FALSE,
               !.appended = Append(@, [role |-> "assistant", content |-> st.acc]),
               !.current = <<>>,
               !.brk = TRUE]

\* a slip: the fragment is put before the accumulated text
OnContentPrepends(st, content) ==
    [st EXCEPT !.acc = content \o st.acc, !.current = content \o st.acc]

\* a slip: every content frame also puts the text so far into the history
OnContentPushes(st, content) ==
    [st EXCEPT !.acc = st.acc \o content,
               !.current = st.acc \o content,
               !.appended =
                   Append(@, [role |-> "assistant", content |-> st.acc \o content])]

\* a slip: the fragment alone is shown, not the text accumulated so far
OnContentShowsFragment(st, content) ==
    [st EXCEPT !.acc = st.acc \o content, !.current = content]

\* accumulatedContent += content; setCurrentTypingMessage(accumulatedContent)
OnContent(st, content) ==
    [st EXCEPT !.acc = st.acc \o content, !.current = st.acc \o content]

\* a slip: a frame that does not parse ends the handling of its chunk
OnParseErrorAborts(st) == [st EXCEPT !.brk = TRUE]

\* catch (error) { console.error('解析错误:', error) }
OnParseError(st) == st

HandleLine(st, line) ==
    IF ~StartsWith(line, DataPrefix) THEN st
    ELSE LET data == Slice(line, PrefixLength)
         IN  IF data = DoneLiteral THEN OnSentinel(st)
             ELSE LET parsed == JSONParse(data)
                  IN  IF parsed.ok THEN OnContent(st, parsed.content)
                      ELSE OnParseError(st)

\* for (const line of lines), left by the break of the sentinel branch
RECURSIVE ProcessLines(_, _, _)
ProcessLines(lines, i, st) ==
    IF i > Len(lines) \/ st.brk THEN st
    ELSE ProcessLines(lines, i + 1, HandleLine(st, lines[i]))

\* new TextDecoder().decode(value)
DecodeChunk(value) == Utf8Decode(value)

ProcessChunk(h, value) ==
    ProcessLines(Split(DecodeChunk(value)), 1,
                 [acc |-> accumulatedContent[h], isTyping |-> isTyping,
                  current |-> currentTypingMessage, appended |-> <<>>, brk |-> FALSE])

\* the chunks the network may hand over next: j whole pending frames and, when
\* chunks are cut anywhere, the first k bytes of the one after them
Cuts(h) ==
    LET w == wire[h]
    IN  IF delivery = "frames" THEN {<<j, 0>> : j \in 1..Len(w)}
        ELSE {c \in (0..Len(w)) \X (0..Len(Flatten(w))) :
                 /\ c # <<0, 0>>
                 /\ c[2] > 0 => c[1] < Len(w) /\ c[2] < Len(w[c[1] + 1])}

ChunkOf(w, c) ==
    Flatten(SubSeq(w, 1, c[1]))
        \o (IF c[2] > 0 THEN SubSeq(w[c[1] + 1], 1, c[2]) ELSE <<>>)

RestOf(w, c) ==
    IF c[2] > 0
    THEN <<SubSeq(w[c[1] + 1], c[2] + 1, Len(w[c[1] + 1]))>> \o SubSeq(w, c[1] + 2, Len(w))
    ELSE SubSeq(w, c[1] + 1, Len(w))

\* reader.read() yields a chunk
ReadChunk(h) ==
    /\ pc[h] = "read" /\ srv[h] # "failed"
    /\ \E c \in Cuts(h) :
          LET value == ChunkOf(wire[h], c)
              st == ProcessChunk(h, value)
          IN  /\ wire' = [wire EXCEPT ![h] = RestOf(wire[h], c)]
              /\ accumulatedContent' = [accumulatedContent EXCEPT ![h] = st.acc]
              /\ isTyping' = st.isTyping
              /\ currentTypingMessage' = st.current
              /\ messages' = messages \o st.appended
              /\ msgBy' = msgBy \o [i \in 1..Len(st.appended) |-> h]
              /\ rawRead' = [rawRead EXCEPT ![h] = @ \o value]
              /\ decoded' = [decoded EXCEPT ![h] = @ \o DecodeChunk(value)]
    /\ UNCHANGED <<input, pc, request, response, srv, sent, delivery, overlap, asked, relayVars, viewVars>>

\* reader.read() yields done: if (done) break, and handleSubmit returns
ReadDone(h) ==
    /\ pc[h] = "read" /\ srv[h] = "closed" /\ wire[h] = <<>>
    /\ pc' = [pc EXCEPT ![h] = "returned"]
    /\ UNCHANGED <<uiVars, accumulatedContent, request, response, netVars, delivery, overlap, asked, relayVars, viewVars,
                   histVars>>

\* reader.read() rejects
ReadFails(h) ==
    /\ pc[h] = "read" /\ srv[h] = "failed"
    /\ Catch(h, ReadFailedMessage)
    /\ UNCHANGED <<input, currentTypingMessage, accumulatedContent, request, response,
                   netVars, delivery, overlap, asked, relayVars, viewVars, rawRead, decoded>>

Next ==
    \/ \E text \in Inputs : SetInput(text)
    \/ SubmitBlank
    \/ Submit
    \/ \E h \in Handlers : FetchOk(h)
    \/ \E h \in Handlers, r \in {"notok", "nobody", "rejected"} : FetchFails(h, r)
    \/ \E h \in Handlers, fr \in ServerFrames : ServerWrite(h, fr)
    \/ \E h \in Handlers : ServerClose(h)
    \/ \E h \in Handlers : ServerFail(h)
    \/ \E h \in Handlers : ReadChunk(h)
    \/ \E h \in Handlers : ReadDone(h)
    \/ \E h \in Handlers : ReadFails(h)

\* chunks hold whole frames
Spec == Init /\ [][Next]_vars

\* chunks are cut anywhere
SpecBytes == InitBytes /\ [][Next]_vars

NextQuestions ==
    \/ \E q \in 1..Len(recommendedQuestions) :
          handleRecommendedQuestion(recommendedQuestions[q])
    \/ \E text \in Inputs : SetInput(text)
    \/ SubmitBlank
    \/ Submit
    \/ \E h \in Handlers : FetchOk(h)
    \/ \E h \in Handlers, r \in {"notok", "nobody", "rejected"} : FetchFails(h, r)

\* the start of a conversation, up to the answer to fetch: the question cards
\* are clicked, the input is typed and submitted
SpecQuestions == Init /\ [][NextQuestions]_vars

(***************************************************************************)
(* The Transport Relay: handler of the chat API route.                     *)
(***************************************************************************)
\* the first characters of systemPrompt: a line feed, then '你是'
SystemPrompt == <<10, 20320, 26159>>

SystemMessage == [role |-> "system", ctype |-> "string", content |-> SystemPrompt]

\* '只允许POST请求'
MethodMessage == <<21482, 20801, 35768, 80, 79, 83, 84, 35831, 27714>>
\* '消息数组无效或为空'
InvalidArrayMessage == <<28040, 24687, 25968, 32452, 26080, 25928, 25110, 20026, 31354>>
\* '没有有效的消息内容'
NoValidMessage == <<27809, 26377, 26377, 25928, 30340, 28040, 24687, 20869, 23481>>
\* '服务器错误: '
ServerErrorPrefix == <<26381, 21153, 22120, 38169, 35823, 58, 32>>
\* the message of the error a failed provider call carries ('Connection error.')
ProviderErrorMessage ==
    <<67, 111, 110, 110, 101, 99, 116, 105, 111, 110, 32, 101, 114, 114, 111, 114, 46>>

\* the entries a client may put into messages.  ctype is what typeof
\* msg.content gives ("string", "undefined", "number"), "null" marks an entry
\* that is null itself; content is the text of a string content:
\* 'q', 'r', 's' and the blank ' '
ReqEntries ==
    {[role |-> "user", ctype |-> "string", content |-> <<113>>],
     [role |-> "assistant", ctype |-> "string", content |-> <<114>>],
     [role |-> "system", ctype |-> "string", content |-> <<115>>],
     [role |-> "user", ctype |-> "string", content |-> <<32>>],
     [role |-> "user", ctype |-> "undefined", content |-> <<>>],
     [role |-> "user", ctype |-> "number", content |-> <<>>],
     [role |-> "none", ctype |-> "null", content |-> <<>>]}

ReqArrays == UNION {[1..k -> ReqEntries] : k \in 0..MaxReqMessages}

\* what req.body.messages may be: an array of entries, or no array
ReqBodies ==
    {[isArray |-> TRUE, messages |-> items] : items \in ReqArrays}
        \cup {[isArray |-> FALSE, messages |-> <<>>]}

Methods == {"POST", "GET"}

\* what a chunk of the provider stream carries as delta content: 'a', two
\* line feeds, '[DONE]', or nothing
ProviderDeltas ==
    {[has |-> TRUE, text |-> <<97>>], [has |-> TRUE, text |-> FrameDelimiter],
     [has |-> TRUE, text |-> DoneLiteral], [has |-> FALSE, text |-> <<>>]}

\* a slip: content is not trimmed before it is compared with ''
IsValidEntryUntrimmed(msg) == msg.ctype = "string" /\ msg.content # <<>>

\* msg && typeof msg.content === 'string' && msg.content.trim() !== ''
IsValidEntry(msg) == msg.ctype = "string" /\ Trim(msg.content) # <<>>

\* messages.filter(...)
ValidEntries(items) == SelectSeq(items, IsValidEntry)

\* a slip: the system instruction is put after the conversation
ProviderMessagesSystemLast(valid) == valid \o <<SystemMessage>>

\* [{ role: 'system', content: systemPrompt }, ...validMessages]
ProviderMessages(valid) == <<SystemMessage>> \o valid

\* the message of the error the validation throws, <<>> when it throws none
ValidationError(isArray, items) ==
    IF ~isArray \/ Len(items) = 0 THEN InvalidArrayMessage
    ELSE IF Len(ValidEntries(items)) = 0 THEN NoValidMessage
    ELSE <<>>

\* res.status(code).json({ message })
JsonReply(code, message) ==
    [status |-> code, contentType |-> "application/json", headersSent |-> TRUE,
     message |-> message, frames |-> <<>>, ended |-> TRUE]

\* res.writeHead(200, { 'Content-Type': 'text/event-stream', ... })
WriteHead(r) ==
    [r EXCEPT !.status = 200, !.contentType = "text/event-stream", !.headersSent = TRUE]

\* the catch block of handler.  Before the headers are written it answers
\* 500 with the message; after writeHead, json() cannot set its header and
\* throws, and the error leaves handler with the response as it was.
RelayCatch(text) ==
    IF res.headersSent
    THEN /\ relayPc' = "threw"
         /\ res' = res
         /\ lateReplies' = lateReplies + 1
    ELSE /\ relayPc' = "done"
         /\ res' = JsonReply(500, ServerErrorPrefix \o text)
         /\ lateReplies' = lateReplies

\* a mutant of MethodAllowed: every method is served
MethodAllowedAny(method) == TRUE

\* req.method !== 'POST' is turned away
MethodAllowed(method) == method = "POST"

\* handler, up to its first await
HandleRequest(method, isArray, items) ==
    /\ req' = [method |-> method, isArray |-> isArray, messages |-> items]
    /\ IF ~MethodAllowed(method)
       THEN /\ res' = JsonReply(405, MethodMessage)
            /\ relayPc' = "done"
            /\ providerCalls' = providerCalls
            /\ lateReplies' = lateReplies
       ELSE IF ValidationError(isArray, items) # <<>>
       THEN /\ RelayCatch(ValidationError(isArray, items))
            /\ providerCalls' = providerCalls
       ELSE /\ res' = WriteHead(res)
            /\ providerCalls' =
                  Append(providerCalls, ProviderMessages(ValidEntries(items)))
            /\ relayPc' = "creating"
            /\ lateReplies' = lateReplies
    /\ UNCHANGED <<providerChunks, yielded, failure, consumerVars, viewVars>>

\* a request arrives
RelayRequest ==
    /\ relayPc = "idle"
    /\ \E method \in Methods, body \in ReqBodies :
          HandleRequest(method, body.isArray, body.messages)

\* openai.chat.completions.create resolves with the stream
ProviderOpens ==
    /\ relayPc = "creating"
    /\ relayPc' = "streaming"
    /\ UNCHANGED <<req, res, providerCalls, providerChunks, relayHist, consumerVars, viewVars>>

\* openai.chat.completions.create rejects
ProviderRejects ==
    /\ relayPc = "creating"
    /\ RelayCatch(ProviderErrorMessage)
    /\ failure' = "open"
    /\ UNCHANGED <<req, providerCalls, providerChunks, yielded, consumerVars, viewVars>>

\* chunk.choices[0]?.delta?.content || ''
DeltaContent(delta) == IF delta.has THEN delta.text ELSE <<>>

\* a slip: the fragment is written as it is, not as JSON
RelayFrameRaw(delta) == DataPrefix \o DeltaContent(delta) \o FrameDelimiter

\* a mutant of RelayFrame: a chunk without content writes the sentinel
RelayFrameDoneOnEmpty(delta) ==
    IF delta.has THEN ContentFrame(delta.text) ELSE DoneFrame

\* res.write(`data: ${JSON.stringify({ content })}\n\n`)
RelayFrame(delta) == ContentFrame(DeltaContent(delta))

\* the stream yields a chunk: one content frame is written
ProviderChunk(delta) ==
    /\ relayPc = "streaming"
    /\ providerChunks < MaxProviderChunks
    /\ res' = [res EXCEPT !.frames = Append(@, RelayFrame(delta))]
    /\ providerChunks' = providerChunks + 1
    /\ yielded' = Append(yielded, delta)
    /\ UNCHANGED <<relayPc, req, providerCalls, failure, lateReplies, consumerVars, viewVars>>

\* the stream ends: the sentinel is written and the response ended
ProviderEnds ==
    /\ relayPc = "streaming"
    /\ res' = [res EXCEPT !.frames = Append(@, DoneFrame), !.ended = TRUE]
    /\ relayPc' = "done"
    /\ UNCHANGED <<req, providerCalls, providerChunks, relayHist, consumerVars, viewVars>>

\* the stream throws
ProviderFails ==
    /\ relayPc = "streaming"
    /\ RelayCatch(ProviderErrorMessage)
    /\ failure' = "stream"
    /\ UNCHANGED <<req, providerCalls, providerChunks, yielded, consumerVars, viewVars>>

NextRelay ==
    \/ RelayRequest
    \/ ProviderOpens
    \/ ProviderRejects
    \/ \E delta \in ProviderDeltas : ProviderChunk(delta)
    \/ ProviderEnds
    \/ ProviderFails

\* the relay handling one request
SpecRelay == Init /\ [][NextRelay]_vars

(***************************************************************************)
(* The consumer and the relay, end to end: the request of the first call   *)
(* reaches the relay, and the frames the relay writes travel to that call  *)
(* whole and in order.                                                     *)
(***************************************************************************)
\* the call whose request the relay handles
Served == Least(Handlers)

\* JSON.stringify({ messages: validMessages }), parsed into req.body
BodyOf(msgs) ==
    [i \in 1..Len(msgs) |->
        [role |-> msgs[i].role, ctype |-> "string", content |-> msgs[i].content]]

\* fetch('/api/chat', { method: 'POST', ... }) reaches handler
RelayReceives ==
    /\ relayPc = "idle"
    /\ pc[Served] = "fetch"
    /\ HandleRequest("POST", TRUE, BodyOf(request[Served]))

\* the status line and headers written by writeHead resolve fetch
FetchResolves ==
    /\ res.headersSent /\ res.status = 200
    /\ FetchOk(Served)

\* the next frame written by res.write travels to the reader
Transmit ==
    /\ pc[Served] = "read" /\ srv[Served] = "open"
    /\ Len(sent[Served]) < Len(res.frames)
    /\ LET text == res.frames[Len(sent[Served]) + 1]
           fr == IF text = DoneFrame /\ Len(sent[Served]) = Len(yielded)
                 THEN [k |-> "done", text |-> <<>>]
                 ELSE [k |-> "content",
                       text |-> DeltaContent(yielded[Len(sent[Served]) + 1])]
       IN  /\ wire' = [wire EXCEPT ![Served] = Append(@, Utf8Encode(text))]
           /\ sent' = [sent EXCEPT ![Served] = Append(@, fr)]
    /\ UNCHANGED <<uiVars, callVars, srv, delivery, overlap, asked, relayVars, viewVars, histVars>>

\* res.end() closes the body once every frame has been sent
BodyEnds ==
    /\ res.ended
    /\ Len(sent[Served]) = Len(res.frames)
    /\ ServerClose(Served)

NextEndToEnd ==
    \/ \E text \in Inputs : SetInput(text)
    \/ SubmitBlank
    \/ Submit
    \/ RelayReceives
    \/ ProviderOpens
    \/ ProviderRejects
    \/ \E delta \in ProviderDeltas : ProviderChunk(delta)
    \/ ProviderEnds
    \/ ProviderFails
    \/ FetchResolves
    \/ Transmit
    \/ BodyEnds
    \/ ReadChunk(Served)
    \/ ReadDone(Served)

SpecEndToEnd == Init /\ [][NextEndToEnd]_vars

\* ---------------------------------------------------------------------------
\* The Code-Block Extractor: renderMessage
\* ---------------------------------------------------------------------------

\* how many tokens a generated content string is made of
MaxTokens == 5

Backtick == 96

Newline == 10

\* '```'
Fence == <<Backtick, Backtick, Backtick>>

\* 'plaintext'
Plaintext == <<112, 108, 97, 105, 110, 116, 101, 120, 116>>

\* 'before ', 'js', 'code', ' after'
Before == <<98, 101, 102, 111, 114, 101, 32>>

Js == <<106, 115>>

Code == <<99, 111, 100, 101>>

After == <<32, 97, 102, 116, 101, 114>>

\* 'before ```js\ncode\n``` after'
TerminatedExample ==
    Before \o Fence \o Js \o <<Newline>> \o Code \o <<Newline>> \o Fence \o After

\* 'before ```js\ncode'
UnterminatedExample == Before \o Fence \o Js \o <<Newline>> \o Code

\* '```\ncode``````js\n``` after'
TwoFencesExample ==
    Fence \o <<Newline>> \o Code \o Fence \o Fence \o Js \o <<Newline>> \o Fence \o After

Examples == {TerminatedExample, UnterminatedExample, TwoFencesExample}

\* the pieces the generated contents are made of: '```', '\n', 'j', ' ', '`'
Tokens == {Fence, <<Newline>>, <<106>>, <<32>>, <<Backtick>>}

\* the contents a message may hold here
Contents ==
    {Flatten(ts) : ts \in UNION {[1..n -> Tokens] : n \in 0..MaxTokens}}
        \cup Examples

\* the contents of the other messages on screen: '```\n```j' and 'j'
Others == {Fence \o <<Newline>> \o Fence \o <<106>>, <<106>>}

\* \w
IsWordChar(c) == c \in (48..57) \cup (65..90) \cup {95} \cup (97..122)

\* the character at offset i, counted from 0; none beyond the end
CharAt(s, i) == IF i >= 0 /\ i < Len(s) THEN s[i + 1] ELSE -1

\* String.prototype.slice(a, b), 0 <= a <= b <= length
SliceBetween(s, a, b) == SubSeq(s, a + 1, b)

\* '```' stands at offset i
FenceAt(s, i) ==
    /\ CharAt(s, i) = Backtick
    /\ CharAt(s, i + 1) = Backtick
    /\ CharAt(s, i + 2) = Backtick

\* the greatest element of a non-empty set of numbers
Greatest(S) == CHOOSE x \in S : \A y \in S : y <= x

\* (\w+)? at offset i: the lengths the group can take, 0 when it takes no part
TagLengths(s, i) ==
    {n \in 0..(Len(s) - i) : \A k \in 0..(n - 1) : IsWordChar(CharAt(s, i + k))}

\* a mutant of Closings: the end of the input closes a body as well
ClosingsOrEnd(s, b) == {q \in b..Len(s) : FenceAt(s, q) \/ q = Len(s)}

\* ([\s\S]*?)``` for a body starting at offset b: where the closing fence can stand
Closings(s, b) == {q \in b..(Len(s) - 3) : FenceAt(s, q)}

\* the tag lengths with which the whole pattern matches at offset p
TagsAt(s, p) ==
    {n \in TagLengths(s, p + 3) :
        /\ CharAt(s, p + 3 + n) = Newline
        /\ Closings(s, p + 3 + n + 1) # {}}

CanMatchAt(s, p) == FenceAt(s, p) /\ TagsAt(s, p) # {}

\* a slip: the body is greedy too, it runs to the last closing fence
MatchAtGreedy(s, p) ==
    LET n == Greatest(TagsAt(s, p))
        b == p + 3 + n + 1
        q == Greatest(Closings(s, b))
    IN  [index |-> p,
         tag |-> SliceBetween(s, p + 3, p + 3 + n),
         body |-> SliceBetween(s, b, q),
         end |-> q + 3]

\* the match at offset p: the group is greedy, the body is lazy
MatchAt(s, p) ==
    LET n == Greatest(TagsAt(s, p))
        b == p + 3 + n + 1
        q == Least(Closings(s, b))
    IN  [index |-> p,
         tag |-> SliceBetween(s, p + 3, p + 3 + n),
         body |-> SliceBetween(s, b, q),
         end |-> q + 3]

\* exec returns null
NoMatch == [index |-> -1, tag |-> <<>>, body |-> <<>>, end |-> 0]

\* codeBlockRegex.exec(content) with the regex's lastIndex at from
Exec(s, from) ==
    LET starts == {p \in from..(Len(s) - 1) : CanMatchAt(s, p)}
    IN  IF starts = {} THEN NoMatch ELSE MatchAt(s, Least(starts))

\* <ReactMarkdown key={lastIndex}>{text}</ReactMarkdown>
Markdown(key, text) ==
    [kind |-> "markdown", key |-> key, language |-> <<>>, content |-> text]

\* <div key={match.index} onClick={() => handleCodeBlockClick(codeContent, language)}>
CodeBlock(key, language, codeContent) ==
    [kind |-> "code", key |-> key, language |-> language, content |-> codeContent]

\* a mutant of LanguageOf: no default language
LanguageOfTag(tag) == tag

\* match[1] || 'plaintext'
LanguageOf(tag) == IF tag = <<>> THEN Plaintext ELSE tag

\* a slip: the text before a match is pushed even when there is none
RECURSIVE RenderLoopAlwaysPushes(_, _, _)
RenderLoopAlwaysPushes(text, lastIndex, parts) ==
    LET match == Exec(text, lastIndex)
    IN  IF match = NoMatch
        THEN IF lastIndex < Len(text)
             THEN Append(parts, Markdown(lastIndex, Slice(text, lastIndex)))
             ELSE parts
        ELSE RenderLoopAlwaysPushes(text, match.end,
                 Append(parts,
                        Markdown(lastIndex, SliceBetween(text, lastIndex, match.index)))
                 \o <<CodeBlock(match.index, LanguageOf(match.tag), Trim(match.body))>>)

\* the while loop of renderMessage and the push after it
RECURSIVE RenderLoop(_, _, _)
RenderLoop(text, lastIndex, parts) ==
    LET match == Exec(text, lastIndex)
    IN  IF match = NoMatch
        THEN IF lastIndex < Len(text)
             THEN Append(parts, Markdown(lastIndex, Slice(text, lastIndex)))
             ELSE parts
        ELSE RenderLoop(text, match.end,
                 (IF match.index > lastIndex
                  THEN Append(parts,
                           Markdown(lastIndex,
                                    SliceBetween(text, lastIndex, match.index)))
                  ELSE parts)
                 \o <<CodeBlock(match.index, LanguageOf(match.tag), Trim(match.body))>>)

\* a mutant of renderMessage: parts is kept from call to call
renderMessageKeepsParts(text) == RenderLoop(text, 0, rendered)

renderMessage(text) == RenderLoop(text, 0, <<>>)

\* React renders a message: renderMessage(message.content)
Render(text) ==
    /\ renderArg' = text
    /\ rendered' = renderMessage(text)
    /\ firstParts' = IF firstParts = <<>> /\ text = msgContent
                     THEN <<rendered'>>
                     ELSE firstParts
    /\ interleaved' = (interleaved \/ (firstParts # <<>> /\ text # msgContent))
    /\ UNCHANGED <<msgContent, consumerVars, relayVars, panelVars>>

NextExtract == \E text \in {msgContent} \cup Others : Render(text)

InitExtract ==
    /\ InitConsumer /\ delivery = "frames" /\ InitRelay
    /\ msgContent \in Contents
    /\ NothingRendered
    /\ InitPanel

\* the messages on screen are rendered again and again
SpecExtract == InitExtract /\ [][NextExtract]_vars

\* ---------------------------------------------------------------------------
\* The Side-Panel Presenter: the panel state of Home and MermaidRenderer
\* ---------------------------------------------------------------------------

\* how many runs of renderMermaid are followed
MaxRenders == 3

\* 'mermaid', 'html'
Mermaid == <<109, 101, 114, 109, 97, 105, 100>>

Html == <<104, 116, 109, 108>>

\* two diagram sources: 'A' and '<b>B'
DiagramA == <<65>>

DiagramB == <<60, 98, 62, 66>>

\* a message with four code blocks: two diagrams, an html block and a block
\* without language tag
PanelMessage ==
    Fence \o Mermaid \o <<Newline>> \o DiagramA \o Fence
        \o Fence \o Mermaid \o <<Newline>> \o DiagramB \o Fence
        \o Fence \o Html \o <<Newline>> \o DiagramA \o Fence
        \o Fence \o <<Newline>> \o DiagramA \o Fence

\* '<pre>', '</pre>'
PreOpen == <<60, 112, 114, 101, 62>>

PreClose == <<60, 47, 112, 114, 101, 62>>

\* `<pre>${content}</pre>`
Fallback(source) == PreOpen \o source \o PreClose

\* the markup mermaid.render resolves with for a source; it stands for the
\* graphic of that source: '<svg>', a name made of the source's letters, '</svg>'
Graphic(source) ==
    <<60, 115, 118, 103, 62>>
        \o SelectSeq(source, LAMBDA c : c \in 65..90)
        \o <<60, 47, 115, 118, 103, 62>>

\* a letter of a tag name
IsAlpha(c) == c \in (65..90) \cup (97..122)

\* a tag starts at offset i: '<' and a letter, or '</' and a letter
TagAt(s, i) ==
    /\ CharAt(s, i) = 60
    /\ \/ IsAlpha(CharAt(s, i + 1))
       \/ CharAt(s, i + 1) = 47 /\ IsAlpha(CharAt(s, i + 2))

\* the text a browser shows for markup set through dangerouslySetInnerHTML:
\* tags are elements, everything else is text
RECURSIVE TextFrom(_, _)
TextFrom(s, i) ==
    IF i >= Len(s) THEN <<>>
    ELSE IF TagAt(s, i)
    THEN LET ends == {j \in i..(Len(s) - 1) : CharAt(s, j) = 62}
         IN  IF ends = {} THEN <<>> ELSE TextFrom(s, Least(ends) + 1)
    ELSE <<CharAt(s, i)>> \o TextFrom(s, i + 1)

TextContent(s) == TextFrom(s, 0)

\* MermaidRenderer is on screen: the panel is open on a diagram and the
\* rendered tab is the active one
RendererShown(panel, tab) == panel.isOpen /\ panel.isMermaid /\ tab = "rendered"

\* a call of renderMermaid waiting for import('mermaid')
Run(inst, source) == [inst |-> inst, content |-> source, stage |-> "importing"]

\* history: what happened last
Event(ev, codeContent, language, run) ==
    [ev |-> ev, content |-> codeContent, language |-> language, run |-> run,
     tabBefore |-> activeTab]

\* React renders Home with the new panel state: MermaidRenderer is mounted
\* (its effect runs), gets a new content (its effect runs again), stays as
\* it is, or is unmounted
Commit(panel, tab) ==
    /\ sidePanel' = panel
    /\ activeTab' = tab
    /\ IF RendererShown(panel, tab)
       THEN IF ~RendererShown(sidePanel, activeTab)
            THEN /\ Len(renders) < MaxRenders
                 /\ instances' = instances + 1
                 /\ svg' = <<>>
                 /\ renders' = Append(renders, Run(instances + 1, panel.content))
            ELSE IF panel.content # sidePanel.content
            THEN /\ Len(renders) < MaxRenders
                 /\ renders' = Append(renders, Run(instances, panel.content))
                 /\ UNCHANGED <<instances, svg>>
            ELSE UNCHANGED <<instances, svg, renders>>
       ELSE /\ svg' = <<>>
            /\ UNCHANGED <<instances, renders>>

\* a mutant of OpenedTab: the tab is left as it was
OpenedTabKept == activeTab

\* setActiveTab("rendered")
OpenedTab == "rendered"

handleCodeBlockClick(codeContent, language) ==
    /\ Commit([isOpen |-> TRUE, content |-> codeContent,
               isMermaid |-> (language = Mermaid), isHtml |-> (language = Html)],
              OpenedTab)
    /\ lastEvent' = Event("click", codeContent, language, 0)
    /\ UNCHANGED <<consumerVars, relayVars, extractVars>>

\* a click on the placeholder of code block i of the message
Click(i) ==
    /\ rendered[i].kind = "code"
    /\ handleCodeBlockClick(rendered[i].content, rendered[i].language)

closeSidePanel ==
    /\ sidePanel.isOpen
    /\ Commit(ClosedPanel, activeTab)
    /\ lastEvent' = Event("close", <<>>, <<>>, 0)
    /\ UNCHANGED <<consumerVars, relayVars, extractVars>>

\* <Tabs value={activeTab} onValueChange={setActiveTab}>
setActiveTab(value) ==
    /\ sidePanel.isOpen
    /\ sidePanel.isMermaid \/ sidePanel.isHtml
    /\ value # activeTab
    /\ Commit(sidePanel, value)
    /\ lastEvent' = Event("tab", <<>>, <<>>, 0)
    /\ UNCHANGED <<consumerVars, relayVars, extractVars>>

\* setSvg of run r reaches the renderer that started it, if still on screen
Reaches(r) == RendererShown(sidePanel, activeTab) /\ renders[r].inst = instances

\* a run of renderMermaid goes on: to stage, with markup set as svg
Settle(r, stage, ev, markup) ==
    /\ renders' = [renders EXCEPT ![r].stage = stage]
    /\ svg' = IF Reaches(r) /\ stage \in {"rendered", "failed"} THEN markup ELSE svg
    /\ lastEvent' = Event(ev, <<>>, <<>>, r)
    /\ UNCHANGED <<sidePanel, activeTab, instances, consumerVars, relayVars, extractVars>>

\* import('mermaid') resolves: initialize, then mermaid.render is called
ImportResolves(r) ==
    /\ renders[r].stage = "importing"
    /\ Settle(r, "rendering", "imported", svg)

\* import('mermaid') rejects: nothing catches it
ImportRejects(r) ==
    /\ renders[r].stage = "importing"
    /\ Settle(r, "lost", "importFailed", svg)

\* mermaid.render resolves
RenderResolves(r) ==
    /\ renders[r].stage = "rendering"
    /\ Settle(r, "rendered", "rendered", Graphic(renders[r].content))

\* mermaid.render rejects
RenderRejects(r) ==
    /\ renders[r].stage = "rendering"
    /\ Settle(r, "failed", "renderFailed", Fallback(renders[r].content))

NextPanel ==
    \/ \E i \in 1..Len(rendered) : Click(i)
    \/ closeSidePanel
    \/ \E value \in {"rendered", "source"} : setActiveTab(value)
    \/ \E r \in 1..Len(renders) : ImportResolves(r)
    \/ \E r \in 1..Len(renders) : ImportRejects(r)
    \/ \E r \in 1..Len(renders) : RenderResolves(r)
    \/ \E r \in 1..Len(renders) : RenderRejects(r)

InitPanelSpec ==
    /\ InitConsumer /\ delivery = "frames" /\ InitRelay
    /\ msgContent = PanelMessage
    /\ renderArg = PanelMessage
    /\ rendered = renderMessage(PanelMessage)
    /\ firstParts = <<rendered>>
    /\ interleaved = FALSE
    /\ InitPanel

\* the user opens, switches and closes the panel on the blocks of a message
SpecPanel == InitPanelSpec /\ [][NextPanel]_vars

(***************************************************************************)
(* What the claims speak of.                                               *)
(***************************************************************************)
ErrorTexts ==
    {ErrorPrefix \o text :
        text \in {NotOkMessage, NoReaderMessage, FetchFailedMessage, ReadFailedMessage}}

IsErrorMessage(m) == m.role = "assistant" /\ m.content \in ErrorTexts

IsReply(m) == m.role = "assistant" /\ m.content \notin ErrorTexts

\* the messages call h appended to the history, in order
RECURSIVE PickBy(_, _)
PickBy(h, i) ==
    IF i > Len(messages) THEN <<>>
    ELSE (IF msgBy[i] = h THEN <<messages[i]>> ELSE <<>>) \o PickBy(h, i + 1)

MessagesBy(h) == PickBy(h, 1)

RepliesOf(h) == SelectSeq(MessagesBy(h), IsReply)

ErrorsOf(h) == SelectSeq(MessagesBy(h), IsErrorMessage)

\* the frames of response h that have been read to their last byte
Delivered(h) ==
    SubSeq(sent[h], 1, Len(sent[h]) - Len(wire[h]))

\* the concatenation of the fragments of the content frames of fs
RECURSIVE ContentOf(_)
ContentOf(fs) ==
    IF fs = <<>> THEN <<>>
    ELSE (IF Head(fs).k = "content" THEN Head(fs).text ELSE <<>>) \o ContentOf(Tail(fs))

Has(fs, kind) == \E i \in 1..Len(fs) : fs[i].k = kind

\* content frames, with none or some malformed ones among them, then the sentinel
EndsWithSentinel(fs) ==
    /\ fs # <<>>
    /\ fs[Len(fs)].k = "done"
    /\ \A i \in 1..(Len(fs) - 1) : fs[i].k # "done"

\* C1: when a response is a sequence of content frames followed by the
\* sentinel and every chunk holds whole frames, then once its last frame is
\* read the call has appended one assistant message, whose content is the
\* concatenation of the fragments in the order the frames arrived.
C1_ConcatenationInOrder ==
    \A h \in Handlers :
        (EndsWithSentinel(sent[h]) /\ ~Has(sent[h], "bad") /\ wire[h] = <<>>)
            => RepliesOf(h) = <<[role |-> "assistant", content |-> ContentOf(sent[h])]>>

C1_Witness ==
    \E h \in Handlers :
        /\ Len(sent[h]) = 3 /\ EndsWithSentinel(sent[h]) /\ ~Has(sent[h], "bad")
        /\ sent[h][1].text # sent[h][2].text
        /\ wire[h] = <<>>
        /\ RepliesOf(h) # <<>>

\* C2: however the bytes of a response (content frames, then the sentinel)
\* are cut into chunks, once all of them are read the sentinel has been
\* recognised and the finalized message is the concatenation of all fragments.
C2_AnyChunking ==
    \A h \in Handlers :
        (EndsWithSentinel(sent[h]) /\ ~Has(sent[h], "bad") /\ wire[h] = <<>>)
            => /\ Len(RepliesOf(h)) = 1
               /\ RepliesOf(h)[1].content = ContentOf(sent[h])

\* C3: once a call has processed the sentinel, whatever arrives later changes
\* neither the history nor the accumulator: the call has appended exactly one
\* reply, and its accumulator is still what it finalized.
C3_NothingAfterSentinel ==
    \A h \in Handlers :
        RepliesOf(h) # <<>>
            => /\ Len(RepliesOf(h)) = 1
               /\ accumulatedContent[h] = RepliesOf(h)[1].content

\* C4: a call that has ended, however its response ended, has added the
\* finalized reply or an error message to the history, and once every call
\* has ended the typing indicator is off.
C4_ReturnsToIdle ==
    /\ \A h \in Handlers :
          pc[h] = "returned" => RepliesOf(h) # <<>> \/ ErrorsOf(h) # <<>>
    /\ (Started # {} /\ \A h \in Started : pc[h] = "returned") => ~isTyping

\* C5: every assistant message of the history is a synthetic error message
\* or was appended by a call that has read a sentinel: the partial content of
\* a response that closed or failed before its sentinel is not in the history.
C5_NoPartialReply ==
    \A i \in 1..Len(messages) :
        messages[i].role = "assistant"
            => IsErrorMessage(messages[i]) \/ Has(Delivered(msgBy[i]), "done")

C5_Witness ==
    \E h \in Handlers :
        /\ pc[h] = "returned"
        /\ accumulatedContent[h] # <<>>
        /\ ~Has(sent[h], "done")
        /\ RepliesOf(h) = <<>>

\* C6: a call whose response was not OK, or had no readable body, has read
\* nothing, has ended, and has appended after its user message exactly one
\* assistant message, the error text; the typing indicator is off unless a
\* later submission turned it on again.
C6_BadResponse ==
    \A h \in Handlers :
        response[h] \in {"notok", "nobody"}
            => /\ pc[h] = "returned"
               /\ rawRead[h] = <<>> /\ accumulatedContent[h] = <<>>
               /\ Len(MessagesBy(h)) = 2
               /\ MessagesBy(h)[1].role = "user"
               /\ MessagesBy(h)[2] =
                      ErrorMessage(IF response[h] = "notok" THEN NotOkMessage
                                   ELSE NoReaderMessage)
               /\ (h = Cardinality(Started) => ~isTyping)

C6_Witness ==
    /\ \E h \in Handlers : response[h] = "notok"
    /\ \E h \in Handlers : response[h] = "nobody"

\* C7: a malformed frame is skipped: with whole frames per chunk, a call that
\* has read malformed frames and no sentinel yet holds in its accumulator the
\* fragments of the valid content frames read so far and has reported no error
\* unless the connection failed; and when the sentinel ends the response, the
\* finalized message is the concatenation of the fragments of the valid frames.
C7_MalformedFrameSkipped ==
    \A h \in Handlers :
        Has(Delivered(h), "bad")
            => /\ ~Has(Delivered(h), "done")
                    => /\ accumulatedContent[h] = ContentOf(Delivered(h))
                       /\ (ErrorsOf(h) # <<>> => srv[h] = "failed")
               /\ (EndsWithSentinel(sent[h]) /\ wire[h] = <<>>)
                    => RepliesOf(h) =
                          <<[role |-> "assistant", content |-> ContentOf(sent[h])]>>

C7_Witness ==
    \E h \in Handlers :
        /\ Len(sent[h]) = 3
        /\ sent[h][1].k = "bad" /\ sent[h][2].k = "content" /\ sent[h][3].k = "done"
        /\ wire[h] = <<>>
        /\ RepliesOf(h) # <<>>

\* C8: the text decoded chunk by chunk equals the decoding of all the bytes
\* read, also when a chunk boundary falls between the bytes of one character.
C8_SplitCharacterDecodes ==
    \A h \in Handlers : decoded[h] = Utf8Decode(rawRead[h])

\* the entries of items whose content is a string with a character that is
\* no white space, in their order
HasVisibleCharacter(text) == \E i \in 1..Len(text) : ~IsSpace(text[i])

RECURSIVE NonBlankEntries(_)
NonBlankEntries(items) ==
    IF items = <<>> THEN <<>>
    ELSE (IF Head(items).ctype = "string" /\ HasVisibleCharacter(Head(items).content)
          THEN <<Head(items)>> ELSE <<>>) \o NonBlankEntries(Tail(items))

Rejected ==
    /\ req.method = "POST"
    /\ ~req.isArray \/ NonBlankEntries(req.messages) = <<>>

\* C9: for a POST whose messages hold at least one entry with non-blank
\* string content, the relay calls the provider once, with the system
\* instruction followed by exactly those entries, unchanged and in order.
C9_ForwardsFilteredInOrder ==
    (req.method = "POST" /\ req.isArray /\ NonBlankEntries(req.messages) # <<>>)
        => providerCalls = <<(<<SystemMessage>> \o NonBlankEntries(req.messages))>>

C9_Witness ==
    /\ req.method = "POST" /\ req.isArray
    /\ Len(req.messages) = 3
    /\ Len(NonBlankEntries(req.messages)) = 2
    /\ req.messages[2].ctype # "string"
    /\ req.messages[1] # req.messages[3]
    /\ Len(providerCalls) = 1

\* C10: a POST whose messages is no array, is empty, or holds no entry with
\* non-blank string content is answered with status 500 and a message
\* payload; no call goes to the provider, no event-stream header and no
\* frame is written.
C10_RejectsBeforeAnyCall ==
    Rejected
        => /\ relayPc = "done"
           /\ res.status = 500
           /\ res.contentType = "application/json"
           /\ IsPrefix(ServerErrorPrefix, res.message)
           /\ res.ended
           /\ res.frames = <<>>
           /\ providerCalls = <<>>

C10_Witness ==
    /\ Rejected
    /\ req.isArray /\ Len(req.messages) = 2
    /\ \E i \in 1..2 : req.messages[i].ctype = "string"
    /\ res.status = 500

\* the text a provider chunk carries: its delta's content, or nothing
TextOf(delta) == IF delta.has THEN delta.text ELSE <<>>

\* the frames of a stream that relayed the chunks ds, sentinel not included
FramesFor(ds) ==
    [i \in 1..Len(ds) |->
        DataPrefix \o JSONStringify(TextOf(ds[i])) \o FrameDelimiter]

\* C11: while the provider's stream runs, the response holds exactly one
\* content frame per chunk yielded, in the order yielded; when the stream has
\* ended normally, exactly one sentinel frame follows them as the last frame
\* and the response is ended, so no content frame comes after the sentinel.
C11_FramePerChunkThenSentinel ==
    /\ (relayPc = "streaming" /\ failure = "none")
          => /\ res.frames = FramesFor(yielded)
             /\ ~res.ended
    /\ (relayPc = "done" /\ failure = "none" /\ res.status = 200)
          => /\ res.frames = FramesFor(yielded) \o <<DoneFrame>>
             /\ res.ended
    /\ \A i \in 1..Len(res.frames) :
          res.frames[i] = DoneFrame => i = Len(res.frames)

C11_Witness ==
    /\ relayPc = "done" /\ failure = "none" /\ res.ended
    /\ Len(yielded) = 2
    /\ ~yielded[1].has /\ yielded[2].has
    /\ Len(res.frames) = 3

\* C12: when the provider call fails while the streaming request is being
\* opened, before any fragment is relayed, the response carries status 500 and
\* a message payload, and is no 200 event-stream response.
C12_OpenFailureIs500 ==
    failure = "open"
        => /\ res.status = 500
           /\ res.contentType = "application/json"
           /\ IsPrefix(ServerErrorPrefix, res.message)

\* C13: when the provider's stream fails after streaming has started, the
\* relay attempts no error response, ends the response, and writes no content
\* frame beyond those of the chunks received.
C13_StreamFailureEndsResponse ==
    failure = "stream"
        => /\ lateReplies = 0
           /\ res.ended
           /\ res.frames = FramesFor(yielded)

\* C14: a request whose method is not POST is answered with status 405 and a
\* message payload; whatever its body holds, nothing is validated, no call
\* goes to the provider and no frame is written.
C14_MethodNotAllowed ==
    (req.method # "none" /\ req.method # "POST")
        => /\ relayPc = "done"
           /\ res.status = 405
           /\ res.contentType = "application/json"
           /\ res.message = MethodMessage
           /\ res.ended
           /\ res.frames = <<>>
           /\ providerCalls = <<>>
           /\ yielded = <<>>

C14_Witness ==
    /\ req.method = "GET"
    /\ req.isArray /\ Len(NonBlankEntries(req.messages)) = 2
    /\ res.status = 405
    /\ providerCalls = <<>>

\* how many word characters stand at offset i and after it
WordRun(s, i) == Least({n \in 0..Len(s) : ~IsWordChar(CharAt(s, i + n))})

\* an opening fence at offset p: triple backtick, optional tag, newline
Opens(s, p) == FenceAt(s, p) /\ CharAt(s, p + 3 + WordRun(s, p + 3)) = Newline

\* where the body of the fence opening at offset p starts
BodyStart(s, p) == p + 3 + WordRun(s, p + 3) + 1

\* a triple backtick stands at or after offset b
ClosedAfter(s, b) == \E q \in b..(Len(s) - 3) : FenceAt(s, q)

\* a terminated fence starts at offset p
Terminated(s, p) == Opens(s, p) /\ ClosedAfter(s, BodyStart(s, p))

\* where the source of part i ends: at the next part, or at the end of the input
PartEnd(i) == IF i < Len(rendered) THEN rendered[i + 1].key ELSE Len(renderArg)

\* part i is the code block of the terminated fence standing at its key
IsFenceRef(i) ==
    LET a == rendered[i].key
        b == BodyStart(renderArg, a)
        e == PartEnd(i)
        tag == SliceBetween(renderArg, a + 3, b - 1)
    IN  /\ Terminated(renderArg, a)
        /\ e - 3 >= b
        /\ FenceAt(renderArg, e - 3)
        /\ ~ClosedAfter(SliceBetween(renderArg, 0, e - 1), b)
        /\ rendered[i].language = (IF tag = <<>> THEN Plaintext ELSE tag)
        /\ rendered[i].content = Trim(SliceBetween(renderArg, b, e - 3))

\* part i is the plain text between two matches, or after the last one
IsTextSpan(i) ==
    LET a == rendered[i].key
        e == PartEnd(i)
    IN  /\ rendered[i].content = SliceBetween(renderArg, a, e)
        /\ \A p \in a..(e - 1) : ~Terminated(renderArg, p)
        /\ i < Len(rendered) => rendered[i + 1].kind = "code"

\* C15: the parts cover the content from left to right without gap: every
\* code part stands for a terminated fence (triple backtick, optional tag,
\* newline, body up to the next triple backtick), its language the tag or
\* plaintext, its content the trimmed body; every markdown part holds the
\* non-empty plain text since the previous match (or, after the last match,
\* the remaining text), in which no terminated fence starts. Text, one js
\* fence, text gives [text, code block (js, body), text].
C15_FencesBecomeCodeBlocks ==
    /\ (rendered = <<>>) <=> (renderArg = <<>>)
    /\ rendered # <<>> => rendered[1].key = 0
    /\ \A i \in 1..Len(rendered) :
          /\ rendered[i].key < PartEnd(i)
          /\ IF rendered[i].kind = "code" THEN IsFenceRef(i) ELSE IsTextSpan(i)
    /\ renderArg = TerminatedExample
          => rendered = <<[kind |-> "markdown", key |-> 0,
                           language |-> <<>>, content |-> Before],
                          [kind |-> "code", key |-> 7,
                           language |-> Js, content |-> Code],
                          [kind |-> "markdown", key |-> 21,
                           language |-> <<>>, content |-> After]>>

C15_Witness ==
    /\ Len(rendered) = 3
    /\ renderArg \notin Examples
    /\ rendered[1].kind = "markdown" /\ rendered[1].content = <<32>>
    /\ rendered[2].kind = "code" /\ rendered[2].language = Plaintext
    /\ rendered[3].kind = "markdown" /\ rendered[3].content = <<106>>

\* the content holds an opening fence with no triple backtick after its
\* newline, and no terminated fence starts before it
HasUnterminatedFence(s) ==
    \E p \in 0..(Len(s) - 1) :
        /\ Opens(s, p)
        /\ ~ClosedAfter(s, BodyStart(s, p))
        /\ \A k \in 0..(p - 1) : ~Terminated(s, k)

\* C16: for a content holding an opening fence with no closing fence after it
\* and no earlier terminated fence, the result is one markdown part equal to
\* the whole input, and no code block.
C16_UnterminatedFenceIsText ==
    HasUnterminatedFence(renderArg)
        => rendered = <<[kind |-> "markdown", key |-> 0,
                         language |-> <<>>, content |-> renderArg]>>

C16_Witness ==
    /\ HasUnterminatedFence(renderArg)
    /\ renderArg \notin Examples
    /\ \E p \in 1..(Len(renderArg) - 1) : Opens(renderArg, p)
    /\ Len(rendered) = 1

C18_CloseClearsPanel ==
    ~sidePanel.isOpen
        => /\ sidePanel.content = <<>>
           /\ ~sidePanel.isMermaid /\ ~sidePanel.isHtml
           /\ activeTab = "rendered"

\* C19: right after a click on a code-block placeholder the panel is open
\* with that block's content, its render kind is mermaid for language
\* mermaid, html for html and plain otherwise, and the rendered view is the
\* active one, whichever view was active before the click.
C19_ClickOpensRendered ==
    lastEvent.ev = "click"
        => /\ \E i \in 1..Len(rendered) :
                 /\ rendered[i].kind = "code"
                 /\ rendered[i].content = lastEvent.content
                 /\ rendered[i].language = lastEvent.language
           /\ sidePanel.isOpen
           /\ sidePanel.content = lastEvent.content
           /\ sidePanel.isMermaid <=> (lastEvent.language = Mermaid)
           /\ sidePanel.isHtml <=> (lastEvent.language = Html)
           /\ activeTab = "rendered"

C19_Witness ==
    /\ lastEvent.ev = "click"
    /\ lastEvent.tabBefore = "source"
    /\ sidePanel.isMermaid
    /\ sidePanel.content = DiagramB

\* C20: right after the rendering of the selected diagram has failed, on the
\* renderer that is on screen, the panel is open and what it shows is a
\* preformatted block whose text is the diagram source.
C20_FailureShowsRawSource ==
    (/\ lastEvent.ev = "renderFailed"
     /\ Reaches(lastEvent.run)
     /\ renders[lastEvent.run].content = sidePanel.content)
        => /\ sidePanel.isOpen
           /\ StartsWith(svg, PreOpen)
           /\ TextContent(svg) = sidePanel.content

\* C21: every step leaves the history as it is or appends one message at its
\* end: no message of the history is removed, changed or moved.
C21_AppendOnly ==
    [][/\ Len(messages') <= Len(messages) + 1
       /\ IsPrefix(messages, messages')]_vars

C21_Witness ==
    /\ Len(messages) = 4
    /\ messages[1].role = "user"
    /\ IsReply(messages[2])
    /\ messages[3].role = "user"
    /\ IsErrorMessage(messages[4])

\* call h has ended on its sentinel, with nothing sent after it, or on an error
EndedCleanly(h) ==
    /\ pc[h] = "returned"
    /\ \/ ErrorsOf(h) # <<>> /\ ~Has(sent[h], "done")
       \/ RepliesOf(h) # <<>> /\ EndsWithSentinel(sent[h])

\* C22: when no submission has overlapped another and every submission made
\* has ended, on its sentinel or on an error, the displayed in-progress text
\* is empty, so the bubble of the next submission starts empty.
C22_AccumulatorDiscarded ==
    (/\ ~overlap
     /\ Started # {}
     /\ \A h \in Started : EndedCleanly(h))
        => currentTypingMessage = <<>>

\* C23: while one stream runs alone and its sentinel has not been read, the
\* displayed in-progress text, once a content frame has been handled, is the
\* concatenation of the fragments of all content frames handled so far; as
\* frames are only added, each displayed value is a prefix of the later ones.
C23_DisplayedIsConcatenation ==
    \A h \in Handlers :
        (/\ ~overlap
         /\ pc[h] = "read"
         /\ Has(Delivered(h), "content")
         /\ ~Has(Delivered(h), "done"))
            => currentTypingMessage = ContentOf(Delivered(h))

C23_Witness ==
    /\ ~overlap
    /\ pc[1] = "returned" /\ pc[2] = "read"
    /\ Len(Delivered(2)) = 3
    /\ Delivered(2)[1].k = "content"
    /\ Delivered(2)[2].k = "bad"
    /\ Delivered(2)[3].k = "content"
    /\ Delivered(2)[1].text # Delivered(2)[3].text
    /\ Len(currentTypingMessage) = 2

\* call h is running and has not read its sentinel
InFlight(h) == pc[h] \in {"fetch", "read"} /\ ~Has(Delivered(h), "done")

\* C25: after a submission was made while another was in flight, the typing
\* indicator stays on as long as one of the streams has not ended.
C25_IndicatorUntilBothEnd ==
    (overlap /\ \E h \in Handlers : InFlight(h)) => isTyping

\* a message with a character that is no white space
NonBlank(m) == HasVisibleCharacter(m.content)

\* where the user message of call h stands in the history
FirstBy(h) == Least({i \in 1..Len(msgBy) : msgBy[i] = h})

\* C30: the request of every call holds the non-blank messages the history
\* held when it was submitted, in order, finalized replies and error messages
\* included, followed by the new user message, whose content is the trimmed
\* input; every call appended one user message, so a blank input, which
\* starts no call, adds none.
C30_RequestIsNonBlankHistory ==
    \A h \in Started :
        LET i == FirstBy(h)
        IN  /\ messages[i].role = "user"
            /\ messages[i].content = Trim(messages[i].content)
            /\ HasVisibleCharacter(messages[i].content)
            /\ request[h] =
                  SelectSeq(SubSeq(messages, 1, i - 1), NonBlank) \o <<messages[i]>>
            /\ Len(SelectSeq(MessagesBy(h), LAMBDA m : m.role = "user")) = 1

C30_Witness ==
    /\ ~overlap
    /\ pc[2] # "free"
    /\ Len(request[2]) = 2
    /\ FirstBy(2) = 3
    /\ messages[2].content = <<>>
    /\ IsReply(messages[2])

\* C27: every message list handed to the provider has one system message, the
\* fixed instruction, and it stands first: no entry after it has the system role.
C27_OneSystemMessage ==
    \A c \in 1..Len(providerCalls) :
        /\ providerCalls[c][1] = SystemMessage
        /\ \A j \in 2..Len(providerCalls[c]) : providerCalls[c][j].role # "system"

\* the runs of renderMermaid started by the renderer now on screen
RunsShown == {r \in 1..Len(renders) : renders[r].inst = instances}

\* C28: when the renderer on screen has started several runs and all of them
\* have settled, by a graphic or by the fallback, the panel shows the result
\* of the last one started, the run for the content now in the panel.
C28_LastRenderWins ==
    (/\ RendererShown(sidePanel, activeTab)
     /\ Cardinality(RunsShown) >= 2
     /\ \A r \in RunsShown : renders[r].stage \in {"rendered", "failed"})
        => svg \in {Graphic(sidePanel.content), Fallback(sidePanel.content)}

\* the segments of a content without its trailing text, if it has one
WithoutTrailingText(parts) ==
    IF parts # <<>> /\ parts[Len(parts)].kind = "markdown"
    THEN SubSeq(parts, 1, Len(parts) - 1)
    ELSE parts

\* the text streamed so far when k characters of the content have arrived
Streamed(k) == SubSeq(renderArg, 1, k)

\* C24: for the content rendered and each of its prefixes, the segments of the
\* prefix, its trailing text left out, are the first segments of the content:
\* what a growing message has shown before its trailing text stays as it is.
C24_PrefixSegmentsStay ==
    \A k \in 0..Len(renderArg) :
        IsPrefix(WithoutTrailingText(renderMessage(Streamed(k))), rendered)

C24_Witness ==
    /\ renderArg = msgContent
    /\ Cardinality({i \in 1..Len(rendered) : rendered[i].kind = "code"}) = 2
    /\ \E k \in 1..(Len(renderArg) - 1) :
          LET parts == renderMessage(Streamed(k))
          IN  /\ Len(parts) = 2
              /\ parts[1].kind = "code"
              /\ parts[2].kind = "markdown"
              /\ FenceAt(renderArg, parts[2].key)

\* a recommended question was clicked while the input was empty
AskedOnEmptyInput == asked.question # <<>> /\ asked.input = <<>>

\* C29: once a recommended question has been clicked with an empty input, the
\* history starts with the user message of that question, the typing state
\* was switched on and a call has sent a request holding that message.
C29_QuestionSubmitted ==
    AskedOnEmptyInput =>
        /\ messages # <<>>
        /\ messages[1] = [role |-> "user", content |-> asked.question]
        /\ \E h \in Started : request[h] = <<messages[1]>>

\* the concatenation of the contents of the provider's chunks ds
RECURSIVE Joined(_)
Joined(ds) == IF ds = <<>> THEN <<>> ELSE TextOf(Head(ds)) \o Joined(Tail(ds))

\* the frames the served call has read
FramesRead == Len(sent[Served]) - Len(wire[Served])

\* C26: end to end, with whole frames: after each read the accumulator of the
\* call is the concatenation of the provider's fragments whose frames it has
\* read, so that no frame is lost, cut or taken for the sentinel; a reply is
\* appended only when the relay's sentinel, its last frame, has been read, and
\* it is the concatenation of all the fragments the provider yielded.
C26_EndToEndFragments ==
    /\ accumulatedContent[Served] =
          Joined(SubSeq(yielded, 1, IF FramesRead < Len(yielded)
                                    THEN FramesRead ELSE Len(yielded)))
    /\ RepliesOf(Served) # <<>> =>
          /\ relayPc = "done" /\ failure = "none"
          /\ FramesRead = Len(yielded) + 1
          /\ RepliesOf(Served) =
                <<[role |-> "assistant", content |-> Joined(yielded)]>>

C26_Witness ==
    /\ Len(yielded) = 2
    /\ yielded[1].text = FrameDelimiter
    /\ yielded[2].text = DoneLiteral
    /\ pc[Served] = "returned"
    /\ RepliesOf(Served) # <<>>

\* where the fence opening at offset a ends: behind the first triple backtick
\* of its body
FenceEnd(s, a) ==
    Least({q \in BodyStart(s, a)..(Len(s) - 3) : FenceAt(s, q)}) + 3

\* the characters of the content part i stands for: the text of a markdown
\* part, the whole fence, from its opening to its closing triple backtick, of
\* a code part
Piece(i) ==
    IF rendered[i].kind = "markdown" THEN rendered[i].content
    ELSE IF Terminated(renderArg, rendered[i].key)
    THEN SliceBetween(renderArg, rendered[i].key, FenceEnd(renderArg, rendered[i].key))
    ELSE <<>>

\* the pieces of the first n parts, one after the other
Pieces(n) == Flatten([i \in 1..n |-> Piece(i)])

\* C31: the parts partition the content in order: no markdown part is empty,
\* every part starts where the pieces of the parts before it end, and the
\* pieces of all parts, one after the other, are the content.
C31_PartsPartitionContent ==
    /\ \A i \in 1..Len(rendered) :
          /\ rendered[i].kind = "markdown" => rendered[i].content # <<>>
          /\ rendered[i].key = Len(Pieces(i - 1))
    /\ Pieces(Len(rendered)) = renderArg

C31_Witness ==
    /\ Len(rendered) = 3
    /\ rendered[1].kind = "code"
    /\ rendered[2].kind = "code"
    /\ rendered[2].key = Len(Piece(1))
    /\ rendered[3].kind = "markdown"
    /\ Len(renderArg) = Len(Piece(1)) + Len(Piece(2)) + Len(Piece(3))

====
